---- MODULE Spec2Model ----
(***************************************************************************)
(* Qfix: diagnosis of a query log as a mixed-integer linear program.       *)
(*                                                                         *)
(* The model follows the four Python modules of the repository:            *)
(*   query_log_parse.py  the regular-expression parser of the log lines    *)
(*   main.py             create_R (working table), MILP, the constants     *)
(*   add_variables.py    the variable factory                              *)
(*   add_constraints.py  the big-M gadgets and add_e_constraints           *)
(*                                                                         *)
(* Python strings are TLA+ strings (TLC evaluates Len, SubSeq and \o on    *)
(* them), a dict is a function, a list is a sequence, an LpVariable is a   *)
(* record and a linear constraint is a record over affine expressions.     *)
(***************************************************************************)
EXTENDS Integers, Sequences, FiniteSets, TLC

VARIABLES D_0, Q, R, parsed_log, problem, call, ret

vars == <<D_0, Q, R, parsed_log, problem, call, ret>>

(***************************************************************************)
(* Bounds of the model.                                                    *)
(***************************************************************************)
\* longest query log drawn for the parser
MaxLog == 2
\* most rows of the initial database
MaxRows == 2
\* largest big-M constant drawn for a gadget call
MaxM == 3
\* continuous variables take the integer values -MaxVal .. MaxVal
MaxVal == 3
\* most statements / tuples handed to add_e_constraints
MaxPairs == 2

(***************************************************************************)
(* Characters and strings (str methods used by the source).                *)
(***************************************************************************)
\* s[i:i+1]: the character at position i (1-based), "" outside the string
Ch(s, i) == IF i >= 1 /\ i <= Len(s) THEN SubSeq(s, i, i) ELSE ""

\* s[a-1:b]: the slice from position a to position b, clipped to the string
Slice(s, a, b) ==
    LET lo == IF a < 1 THEN 1 ELSE a
        hi == IF b > Len(s) THEN Len(s) ELSE b
    IN  IF lo > hi THEN "" ELSE SubSeq(s, lo, hi)

Digits == {"0", "1", "2", "3", "4", "5", "6", "7", "8", "9"}

LowerLetters == {"a", "b", "c", "d", "e", "f", "g", "h", "i", "j", "k", "l", "m",
                 "n", "o", "p", "q", "r", "s", "t", "u", "v", "w", "x", "y", "z"}

UpperLetters == {"A", "B", "C", "D", "E", "F", "G", "H", "I", "J", "K", "L", "M",
                 "N", "O", "P", "Q", "R", "S", "T", "U", "V", "W", "X", "Y", "Z"}

\* \s : the log lines of the model use the blank as their only whitespace
Space == {" "}

\* \w
Word == Digits \cup LowerLetters \cup UpperLetters \cup {"_"}

\* [\w\.]
WordDot == Word \cup {"."}

LowerSeq == "abcdefghijklmnopqrstuvwxyz"

UpperSeq == "ABCDEFGHIJKLMNOPQRSTUVWXYZ"

RECURSIVE Find(_, _, _)
\* the position of the first c in s from position i on, or 0
Find(s, c, i) ==
    IF i > Len(s) THEN 0 ELSE IF Ch(s, i) = c THEN i ELSE Find(s, c, i + 1)

\* str.upper() on one character
UpperCh(c) == IF c \in LowerLetters THEN Ch(UpperSeq, Find(LowerSeq, c, 1)) ELSE c

\* the text at position i is kw, letter case ignored: the (?i) flag
MatchIC(s, i, kw) ==
    /\ i >= 1
    /\ i + Len(kw) - 1 <= Len(s)
    /\ \A k \in 1..Len(kw) : UpperCh(Ch(s, i + k - 1)) = Ch(kw, k)

RECURSIVE SpanEnd(_, _, _)
\* a greedy run X* from position i: the first position not in class X
SpanEnd(s, i, X) ==
    IF i >= 1 /\ i <= Len(s) /\ Ch(s, i) \in X THEN SpanEnd(s, i + 1, X) ELSE i

RECURSIVE SpanStart(_, _, _)
\* the same from the right: the last position not in class X, from i down
SpanStart(s, i, X) ==
    IF i >= 1 /\ i <= Len(s) /\ Ch(s, i) \in X THEN SpanStart(s, i - 1, X) ELSE i

\* str.strip()
Strip(s) == Slice(s, SpanEnd(s, 1, Space), SpanStart(s, Len(s), Space))

\* str.startswith(p)
StartsWith(s, p) == Len(s) >= Len(p) /\ Slice(s, 1, Len(p)) = p

\* c in s, for a one-character c
Contains(s, c) == Find(s, c, 1) > 0

\* s.find(c) + 1: the position of the first c in s, or 0
FirstIndex(s, c) == Find(s, c, 1)

RECURSIVE Split(_, _)
\* str.split(c): the pieces between the occurrences of c
Split(s, c) ==
    IF ~Contains(s, c)
    THEN <<s>>
    ELSE LET k == FirstIndex(s, c)
         IN  <<Slice(s, 1, k - 1)>> \o Split(Slice(s, k + 1, Len(s)), c)

\* a digit part of a Python float literal: digits, single underscores between
IsDigitPart(t) ==
    /\ Len(t) > 0
    /\ \A k \in 1..Len(t) : Ch(t, k) \in Digits \cup {"_"}
    /\ Ch(t, 1) \in Digits
    /\ Ch(t, Len(t)) \in Digits
    /\ \A k \in 1..(Len(t) - 1) : ~(Ch(t, k) = "_" /\ Ch(t, k + 1) = "_")

IsMantissa(t) ==
    \/ IsDigitPart(t)
    \/ \E d \in 1..Len(t) :
          /\ Ch(t, d) = "."
          /\ LET l == Slice(t, 1, d - 1)
                 r == Slice(t, d + 1, Len(t))
             IN  \/ IsDigitPart(l) /\ (r = "" \/ IsDigitPart(r))
                 \/ l = "" /\ IsDigitPart(r)

\* float(t) returns (does not raise ValueError), for t over [\w\.]
IsFloat(t) ==
    \/ MatchIC(t, 1, "INF") /\ Len(t) = 3
    \/ MatchIC(t, 1, "NAN") /\ Len(t) = 3
    \/ MatchIC(t, 1, "INFINITY") /\ Len(t) = 8
    \/ IsMantissa(t)
    \/ \E k \in 1..Len(t) :
          /\ Ch(t, k) \in {"e", "E"}
          /\ IsMantissa(Slice(t, 1, k - 1))
          /\ IsDigitPart(Slice(t, k + 1, Len(t)))

\* an Optional[list]: Python's None, or a list
None == [some |-> FALSE, list |-> <<>>]

Some(l) == [some |-> TRUE, list |-> l]

(***************************************************************************)
(* A Python dict keeps its keys in insertion order: a row, and the dict of *)
(* SET assignments, is the sequence of its <<key, value>> items.           *)
(***************************************************************************)
Keys(row) == [k \in 1..Len(row) |-> row[k][1]]

HasKey(row, key) == \E k \in 1..Len(row) : row[k][1] = key

\* row[key]
Get(row, key) == row[CHOOSE k \in 1..Len(row) : row[k][1] = key][2]

\* row[key] = value
SetItem(row, key, value) ==
    IF HasKey(row, key)
    THEN [k \in 1..Len(row) |-> IF row[k][1] = key THEN <<key, value>> ELSE row[k]]
    ELSE Append(row, <<key, value>>)

\* [k for k in row.keys() if not k.startswith('_')]
RECURSIVE NonMeta(_)
NonMeta(keys) ==
    IF keys = <<>>
    THEN <<>>
    ELSE (IF StartsWith(Head(keys), "_") THEN <<>> ELSE <<Head(keys)>>)
             \o NonMeta(Tail(keys))

RECURSIVE Concat(_)
\* the concatenation of a sequence of sequences (the order of nested loops)
Concat(ss) == IF ss = <<>> THEN <<>> ELSE Head(ss) \o Concat(Tail(ss))

Range(seq) == {seq[k] : k \in 1..Len(seq)}

\* the position of the last occurrence of x in seq
Pos(seq, x) == CHOOSE k \in 1..Len(seq) : seq[k] = x /\ \A j \in (k + 1)..Len(seq) : seq[j] # x

(***************************************************************************)
(* query_log_parse.py                                                      *)
(***************************************************************************)
SetOperators == {"+", "-", "*", "/"}

\* ^(\w+)\s*([\+\-\*\/])\s*([\w\.]+)$
parse_assignment(expr0) ==
    LET expr == Strip(expr0)
        p1   == SpanEnd(expr, 1, Word)
        p2   == SpanEnd(expr, p1, Space)
        p3   == SpanEnd(expr, p2 + 1, Space)
        p4   == SpanEnd(expr, p3, WordDot)
        m    == /\ p1 > 1
                /\ p2 <= Len(expr)
                /\ Ch(expr, p2) \in SetOperators
                /\ p4 > p3
                /\ p4 = Len(expr) + 1
    IN  IF m
        THEN [left_operand  |-> Slice(expr, 1, p1 - 1),
              operator      |-> Ch(expr, p2),
              right_operand |-> Slice(expr, p3, Len(expr))]
        ELSE [expression |-> expr]

\* ^(\w+)\s*(<=|>=|=|<|>)\s*([\w\.]+)$
parse_condition(cond0) ==
    LET cond == Strip(cond0)
        p1   == SpanEnd(cond, 1, Word)
        p2   == SpanEnd(cond, p1, Space)
        two  == Slice(cond, p2, p2 + 1) \in {"<=", ">="}
        one  == p2 <= Len(cond) /\ Ch(cond, p2) \in {"=", "<", ">"}
        \* the alternation tries <= and >= first; when the rest then fails the
        \* one-character alternatives leave "=" in front of [\w\.]+, which fails too
        oe   == IF two THEN p2 + 2 ELSE p2 + 1
        p3   == SpanEnd(cond, oe, Space)
        p4   == SpanEnd(cond, p3, WordDot)
        m    == /\ p1 > 1
                /\ two \/ one
                /\ p4 > p3
                /\ p4 = Len(cond) + 1
    IN  IF m
        THEN [attribute |-> Slice(cond, 1, p1 - 1),
              operator  |-> Slice(cond, p2, oe - 1),
              value     |-> Slice(cond, p3, Len(cond))]
        ELSE [condition |-> cond]

\* s from position k on starts with \s+KW\s+ ; the position after it, or 0
AfterKeyword(s, k, kw) ==
    LET j == SpanEnd(s, k, Space)
        e == SpanEnd(s, j + Len(kw), Space)
    IN  IF /\ k >= 1
           /\ Ch(s, k) \in Space
           /\ MatchIC(s, j, kw)
           /\ e > j + Len(kw)
        THEN e
        ELSE 0

RECURSIVE FindKeyword(_, _, _)
\* the leftmost position from i on where \s+KW\s+ matches, or 0
FindKeyword(s, i, kw) ==
    IF i > Len(s) THEN 0
    ELSE IF AfterKeyword(s, i, kw) > 0 THEN i
    ELSE FindKeyword(s, i + 1, kw)

RECURSIVE SplitAnd(_)
\* re.split(r"(?i)\s+AND\s+", s)
SplitAnd(s) ==
    LET k == FindKeyword(s, 1, "AND")
    IN  IF k = 0
        THEN <<s>>
        ELSE <<Slice(s, 1, k - 1)>>
                 \o SplitAnd(Slice(s, AfterKeyword(s, k, "AND"), Len(s)))

\* the list comprehension [f(x) for x in seq if x], x stripped
RECURSIVE NonEmptyStripped(_)
NonEmptyStripped(seq) ==
    IF seq = <<>>
    THEN <<>>
    ELSE LET c == Strip(Head(seq))
         IN  (IF c = "" THEN <<>> ELSE <<c>>) \o NonEmptyStripped(Tail(seq))

parse_where_clause(where_clause) ==
    LET conditions == NonEmptyStripped(SplitAnd(where_clause))
    IN  [k \in 1..Len(conditions) |-> parse_condition(conditions[k])]

\* ^KW1\s+ ... : the position after the keyword and the blanks behind it, or 0
AfterLeading(s, kw) ==
    LET e == SpanEnd(s, Len(kw) + 1, Space)
    IN  IF MatchIC(s, 1, kw) /\ e > Len(kw) + 1 /\ e <= Len(s) THEN e ELSE 0

\* KW\s+ at position i: the position after it, or 0
AfterWord(s, i, kw) ==
    LET e == SpanEnd(s, i + Len(kw), Space)
    IN  IF i >= 1 /\ MatchIC(s, i, kw) /\ e > i + Len(kw) /\ e <= Len(s) THEN e ELSE 0

\* (\w+) at position i: the position after the table name, or 0
AfterTable(s, i) ==
    LET e == SpanEnd(s, i, Word)
    IN  IF i >= 1 /\ i <= Len(s) /\ e > i THEN e ELSE 0

\* (?i)^UPDATE\s+(\w+)\s+SET\s+(.*?)(?:\s+WHERE\s+(.*))?$
\* the groups of the match, or matched = FALSE. The lazy (.*?) ends at the
\* leftmost \s+WHERE\s+ behind its first character, else at the end of the line.
update_pattern(s) ==
    LET t0 == AfterLeading(s, "UPDATE")
        t1 == IF t0 = 0 THEN 0 ELSE AfterTable(s, t0)
        s0 == IF t1 = 0 THEN 0 ELSE SpanEnd(s, t1, Space)
        s1 == IF s0 = 0 \/ s0 = t1 THEN 0 ELSE AfterWord(s, s0, "SET")
        w  == IF s1 = 0 THEN 0 ELSE FindKeyword(s, s1 + 1, "WHERE")
    IN  IF s1 = 0
        THEN [matched |-> FALSE]
        ELSE [matched |-> TRUE,
              group1  |-> Slice(s, t0, t1 - 1),
              group2  |-> IF w = 0 THEN Slice(s, s1, Len(s)) ELSE Slice(s, s1, w - 1),
              group3  |-> IF w = 0
                          THEN ""
                          ELSE Slice(s, AfterKeyword(s, w, "WHERE"), Len(s))]

\* \s+VALUES\s*\((.*?)\)\s*$ from position i of a stripped line: the position
\* of the opening parenthesis, or 0
ValuesAt(s, i) ==
    LET j == SpanEnd(s, i, Space)
        k == SpanEnd(s, j + 6, Space)
    IN  IF /\ i >= 1
           /\ j > i
           /\ MatchIC(s, j, "VALUES")
           /\ Ch(s, k) = "("
           /\ Len(s) > k
           /\ Ch(s, Len(s)) = ")"
        THEN k
        ELSE 0

\* (?i)^INSERT\s+INTO\s+(\w+)(?:\s*\((.*?)\))?\s+VALUES\s*\((.*?)\)\s*$
insert_pattern(s) ==
    LET i0 == AfterLeading(s, "INSERT")
        i1 == IF i0 = 0 THEN 0 ELSE AfterWord(s, i0, "INTO")
        t1 == IF i1 = 0 THEN 0 ELSE AfterTable(s, i1)
        \* the optional column list: \s*\( , then lazily to the first \) behind
        \* which the VALUES part matches
        c0 == IF t1 = 0 THEN 0 ELSE SpanEnd(s, t1, Space)
        closes == IF t1 # 0 /\ Ch(s, c0) = "("
                  THEN {r \in (c0 + 1)..Len(s) : Ch(s, r) = ")" /\ ValuesAt(s, r + 1) > 0}
                  ELSE {}
        c1 == IF closes = {} THEN 0 ELSE CHOOSE r \in closes : \A x \in closes : r <= x
        v  == IF t1 = 0 THEN 0
              ELSE IF c1 # 0 THEN ValuesAt(s, c1 + 1) ELSE ValuesAt(s, t1)
    IN  IF v = 0
        THEN [matched |-> FALSE]
        ELSE [matched |-> TRUE,
              group1  |-> Slice(s, i1, t1 - 1),
              \* an unmatched optional group is None, which is falsy like ""
              group2  |-> IF c1 = 0 THEN "" ELSE Slice(s, c0 + 1, c1 - 1),
              group3  |-> Slice(s, v + 1, Len(s) - 1)]

\* (?i)^DELETE\s+FROM\s+(\w+)(?:\s+WHERE\s+(.*))?$
delete_pattern(s) ==
    LET d0 == AfterLeading(s, "DELETE")
        t0 == IF d0 = 0 THEN 0 ELSE AfterWord(s, d0, "FROM")
        t1 == IF t0 = 0 THEN 0 ELSE AfterTable(s, t0)
        w  == IF t1 = 0 \/ t1 > Len(s) THEN 0 ELSE AfterKeyword(s, t1, "WHERE")
    IN  IF t1 = 0 \/ (t1 <= Len(s) /\ w = 0)
        THEN [matched |-> FALSE]
        ELSE [matched |-> TRUE,
              group1  |-> Slice(s, t0, t1 - 1),
              group2  |-> IF w = 0 THEN "" ELSE Slice(s, w, Len(s))]

RECURSIVE SetClause(_, _)
\* the loop over set_clause_str.split(","): a later assignment to the same
\* column replaces the earlier one (set_parsed is a dict)
SetClause(assigns, set_parsed) ==
    IF assigns = <<>>
    THEN set_parsed
    ELSE LET assign == Strip(Head(assigns))
             k      == FirstIndex(assign, "=")
             column == Strip(Slice(assign, 1, k - 1))
             expr   == Strip(Slice(assign, k + 1, Len(assign)))
         IN  IF Contains(assign, "=")
             THEN SetClause(Tail(assigns),
                            SetItem(set_parsed, column, parse_assignment(expr)))
             ELSE SetClause(Tail(assigns), set_parsed)

\* [x.strip() for x in s.split(",")]
StripAll(seq) == [k \in 1..Len(seq) |-> Strip(seq[k])]

\* the body of the loop of parse_query_log: the query_info of one line
query_info(query0) ==
    LET query == Strip(query0)
        update_match == update_pattern(query)
        insert_match == insert_pattern(query)
        delete_match == delete_pattern(query)
    IN  IF update_match.matched
        THEN [type  |-> "UPDATE",
              table |-> update_match.group1,
              set   |-> SetClause(Split(Strip(update_match.group2), ","), <<>>),
              where |-> IF update_match.group3 # ""
                        THEN Some(parse_where_clause(update_match.group3))
                        ELSE None]
        ELSE IF insert_match.matched
        THEN [type    |-> "INSERT",
              table   |-> insert_match.group1,
              columns |-> IF insert_match.group2 # ""
                          THEN Some(StripAll(Split(insert_match.group2, ",")))
                          ELSE None,
              values  |-> StripAll(Split(insert_match.group3, ","))]
        ELSE IF delete_match.matched
        THEN [type  |-> "DELETE",
              table |-> delete_match.group1,
              where |-> IF delete_match.group2 # ""
                        THEN Some(parse_where_clause(delete_match.group2))
                        ELSE None]
        ELSE [type |-> "UNKNOWN", raw |-> query]

RECURSIVE parse_loop_skip(_, _)
\* A faulty variant of the loop of parse_query_log, which appends nothing for
\* a line that matches no pattern.
parse_loop_skip(query_log, results) ==
    IF query_log = <<>>
    THEN results
    ELSE LET info == query_info(Head(query_log))
         IN  parse_loop_skip(Tail(query_log),
                             IF info.type = "UNKNOWN" THEN results
                                                      ELSE Append(results, info))

RECURSIVE parse_loop(_, _)
\* for query in query_log: ... results.append(query_info)
parse_loop(query_log, results) ==
    IF query_log = <<>>
    THEN results
    ELSE parse_loop(Tail(query_log), Append(results, query_info(Head(query_log))))

parse_query_log(query_log) == parse_loop(query_log, <<>>)

(***************************************************************************)
(* Python and pulp objects.                                                *)
(***************************************************************************)
\* a call returns a value or raises an exception
Return(v) == [raised |-> "", value |-> v]

Raise(e) == [raised |-> e, value |-> <<>>]

\* a variable bound: None (unbounded), or a number
NoBound == [some |-> FALSE, val |-> 0]

Bound(n) == [some |-> TRUE, val |-> n]

\* pulp.LpVariable(name, lowBound, upBound, cat). obj is the identity of the
\* Python object (the ordinal of its allocation): two variables built by two
\* calls are two objects even when they carry the same name.
LpVariable(name, lowBound, upBound, cat, obj) ==
    [kind |-> "LpVariable", name |-> name, cat |-> cat, obj |-> obj,
     lowBound |-> lowBound, upBound |-> upBound]

\* a Python number
Number(v) == [kind |-> "number", val |-> v]

\* x.name exists: on an LpVariable, not on a number (AttributeError)
HasName(x) == x.kind = "LpVariable"

\* the affine expression of a variable or number
V(x) ==
    IF x.kind = "LpVariable"
    THEN [terms |-> <<[coef |-> 1, var |-> x]>>, const |-> 0]
    ELSE [terms |-> <<>>, const |-> x.val]

\* the affine expression of a constant
K(n) == [terms |-> <<>>, const |-> n]

\* e * n (and n * e)
Times(e, n) ==
    [terms |-> [k \in 1..Len(e.terms) |->
                   [coef |-> e.terms[k].coef * n, var |-> e.terms[k].var]],
     const |-> e.const * n]

\* e1 + e2
Plus(e1, e2) == [terms |-> e1.terms \o e2.terms, const |-> e1.const + e2.const]

\* e1 - e2
Minus(e1, e2) == Plus(e1, Times(e2, -1))

\* the LpConstraint built by lhs <= rhs, lhs >= rhs, lhs == rhs
LE(lhs, rhs) == [lhs |-> lhs, sense |-> "<=", rhs |-> rhs]

GE(lhs, rhs) == [lhs |-> lhs, sense |-> ">=", rhs |-> rhs]

EQ(lhs, rhs) == [lhs |-> lhs, sense |-> "==", rhs |-> rhs]

\* str(n) for a natural number
RECURSIVE Str(_)
Str(n) ==
    IF n < 10
    THEN Ch("0123456789", n + 1)
    ELSE Str(n \div 10) \o Ch("0123456789", (n % 10) + 1)

(***************************************************************************)
(* The meaning of a constraint set: its feasible assignments. An assignment*)
(* maps the identity of each variable to a value of its domain; continuous *)
(* values are taken on the integer grid -MaxVal .. MaxVal.                 *)
(***************************************************************************)
Grid == (0 - MaxVal)..MaxVal

Domain(v) ==
    {x \in (IF v.cat = "Binary" THEN {0, 1} ELSE Grid) :
        /\ v.lowBound.some => x >= v.lowBound.val
        /\ v.upBound.some => x <= v.upBound.val}

ExprVars(e) == {e.terms[k].var : k \in 1..Len(e.terms)}

ConstraintVars(c) == ExprVars(c.lhs) \cup ExprVars(c.rhs)

\* the variables of a sequence of constraints
VarsOf(cs) == UNION {ConstraintVars(cs[k]) : k \in 1..Len(cs)}

RECURSIVE EvalTerms(_, _)
EvalTerms(terms, asg) ==
    IF terms = <<>>
    THEN 0
    ELSE Head(terms).coef * asg[Head(terms).var.obj] + EvalTerms(Tail(terms), asg)

Eval(e, asg) == EvalTerms(e.terms, asg) + e.const

Holds(c, asg) ==
    LET l == Eval(c.lhs, asg)
        r == Eval(c.rhs, asg)
    IN  CASE c.sense = "<=" -> l <= r
          [] c.sense = ">=" -> l >= r
          [] OTHER          -> l = r

RECURSIVE Assignments(_)
\* the assignments of the variables vs, each within its declared domain
Assignments(vs) ==
    IF vs = {}
    THEN {<<>>}
    ELSE LET v == CHOOSE x \in vs : TRUE
         IN  {(v.obj :> x) @@ asg : x \in Domain(v), asg \in Assignments(vs \ {v})}

\* the assignments of vs that satisfy every constraint of cs
Feasible(cs, vs) ==
    {asg \in Assignments(vs) : \A k \in 1..Len(cs) : Holds(cs[k], asg)}

(***************************************************************************)
(* add_constraints.py. The last parameter h of a gadget is the number of   *)
(* objects allocated before the call.                                      *)
(***************************************************************************)
binary_mult(b, u, M, h) ==
    IF ~HasName(b) \/ ~HasName(u)
    THEN Raise("AttributeError")
    ELSE LET a == LpVariable("a_" \o b.name \o "_" \o u.name,
                             NoBound, NoBound, "Binary", h + 1)
         IN  Return([var |-> a,
                     constraints |->
                         << LE(V(a), V(u)),
                            LE(V(a), Times(V(b), M)),
                            GE(V(a), Minus(V(u), Times(Minus(K(1), V(b)), M))) >>])

\* A faulty variant of is_less_equal, which relaxes with b instead of 1 - b
\* (v1 - v2 <= M * b).
is_less_equal_flipped(v1, v2, M, h) ==
    IF ~HasName(v1) \/ ~HasName(v2)
    THEN Raise("AttributeError")
    ELSE LET b == LpVariable("le_" \o v1.name \o "_" \o v2.name,
                             NoBound, NoBound, "Binary", h + 1)
         IN  Return([var |-> b,
                     constraints |->
                         << LE(Minus(V(v1), V(v2)), Times(V(b), M)) >>])

is_less_equal(v1, v2, M, h) ==
    IF ~HasName(v1) \/ ~HasName(v2)
    THEN Raise("AttributeError")
    ELSE LET b == LpVariable("le_" \o v1.name \o "_" \o v2.name,
                             NoBound, NoBound, "Binary", h + 1)
         IN  Return([var |-> b,
                     constraints |->
                         << LE(Minus(V(v1), V(v2)), Times(Minus(K(1), V(b)), M)) >>])

\* A faulty variant of and_binary, without b >= b1 + b2 - 1.
and_binary_no_lower(b1, b2, h) ==
    IF ~HasName(b1) \/ ~HasName(b2)
    THEN Raise("AttributeError")
    ELSE LET b == LpVariable("and_" \o b1.name \o "_" \o b2.name,
                             NoBound, NoBound, "Binary", h + 1)
         IN  Return([var |-> b,
                     constraints |-> << LE(V(b), V(b1)), LE(V(b), V(b2)) >>])

and_binary(b1, b2, h) ==
    IF ~HasName(b1) \/ ~HasName(b2)
    THEN Raise("AttributeError")
    ELSE LET b == LpVariable("and_" \o b1.name \o "_" \o b2.name,
                             NoBound, NoBound, "Binary", h + 1)
         IN  Return([var |-> b,
                     constraints |->
                         << LE(V(b), V(b1)),
                            LE(V(b), V(b2)),
                            GE(V(b), Minus(Plus(V(b1), V(b2)), K(1))) >>])

is_equal(v1, v2, M, h) ==
    LET r1 == is_less_equal(v1, v2, M, h)
        r2 == is_less_equal(v2, v1, M, h + 1)
        ra == and_binary(r1.value.var, r2.value.var, h + 2)
    IN  IF r1.raised # "" THEN r1
        ELSE IF r2.raised # "" THEN r2
        ELSE IF ra.raised # "" THEN ra
        ELSE Return([var |-> ra.value.var,
                     constraints |-> r1.value.constraints \o r2.value.constraints
                                         \o ra.value.constraints])

\* returns w and the problem with the constraint w == u + v added
add_products(u, v, prob, h) ==
    IF ~HasName(u) \/ ~HasName(v)
    THEN [raised |-> "AttributeError", value |-> <<>>, problem |-> prob]
    ELSE LET w == LpVariable("sum_" \o u.name \o "_" \o v.name,
                             NoBound, NoBound, "Continuous", h + 1)
         IN  [raised |-> "", value |-> w,
              problem |-> Append(prob, EQ(V(w), Plus(V(u), V(v))))]


\* a constraint added with a name: problem += (constraint, name)
Named(c, name) == [lhs |-> c.lhs, sense |-> c.sense, rhs |-> c.rhs, name |-> name]

\* t_star_Aj_val == ghost, as the condition of the if. Against a number it is
\* the comparison of two numbers. Against an LpVariable the operator builds an
\* LpConstraint, whose truth value is pulp's and not the repository's: lp_truth
\* stands for it.
EqualsGhost(t_star_Aj_val, ghost, lp_truth) ==
    IF ghost.kind = "number" THEN t_star_Aj_val = ghost.val ELSE lp_truth

\* one iteration of the loop of add_e_constraints, on the state
\* st = [problem, raised, h] of the call
add_e_body(st, key, e_var, C, t_vars, ghost, M, lp_truth) ==
    LET i    == key[1]
        j    == key[2]
        r1   == is_equal(t_vars.val[key], ghost, M, st.h)
        p1   == st.problem \o r1.value.constraints
        b1   == r1.value.var
        b2   == LpVariable("b2_q" \o Str(i) \o "_t" \o Str(j),
                           NoBound, NoBound, "Binary", st.h + 4)
        sfx  == "_q" \o Str(i) \o "_t" \o Str(j)
        fix  == IF EqualsGhost(Get(C[j + 1].correct, "A"), ghost, lp_truth)
                THEN Named(EQ(V(b2), K(1)), "fix_b2_eq_1" \o sfx)
                ELSE Named(EQ(V(b2), K(0)), "fix_b2_eq_0" \o sfx)
        p2   == Append(p1, fix)
        ra   == and_binary(b1, b2, st.h + 4)
        p3   == p2 \o ra.value.constraints
        last == Named(EQ(Plus(V(e_var), V(ra.value.var)), K(1)), "enforce_not_and" \o sfx)
    IN  IF key \notin DOMAIN t_vars.val
        THEN [problem |-> st.problem, raised |-> "KeyError", h |-> st.h]
        ELSE IF r1.raised # ""
        THEN [problem |-> st.problem, raised |-> r1.raised, h |-> st.h]
        ELSE IF j + 1 > Len(C)
        THEN [problem |-> p1, raised |-> "IndexError", h |-> st.h + 3]
        ELSE IF ~HasKey(C[j + 1].correct, "A")
        THEN [problem |-> p1, raised |-> "KeyError", h |-> st.h + 3]
        ELSE [problem |-> Append(p3, last), raised |-> "", h |-> st.h + 5]

RECURSIVE add_e_loop(_, _, _, _, _, _, _, _)
\* for (i, j), e_var in e_vars.items(): an exception ends the loop and leaves
\* in the problem the constraints added before it
add_e_loop(st, keys, e_vars, C, t_vars, ghost, M, lp_truth) ==
    LET iterate(s) ==
            IF keys = <<>> \/ s.raised # ""
            THEN s
            ELSE add_e_loop(add_e_body(s, Head(keys), e_vars.val[Head(keys)],
                                       C, t_vars, ghost, M, lp_truth),
                            Tail(keys), e_vars, C, t_vars, ghost, M, lp_truth)
    IN  \* the state of the call is computed once for each iteration
        CHOOSE r \in {iterate(s) : s \in {st}} : TRUE

\* add_e_constraints(problem, R, C, e_vars, t_vars, ghost, M); R is not read
add_e_constraints(prob, Rs, C, e_vars, t_vars, ghost, M, lp_truth, h) ==
    add_e_loop([problem |-> prob, raised |-> "", h |-> h],
               e_vars.keys, e_vars, C, t_vars, ghost, M, lp_truth)

(***************************************************************************)
(* main.py                                                                 *)
(***************************************************************************)
RECURSIVE template_tuple(_, _)
\* for key in template_keys: new_tuple[key] = 0
template_tuple(template_keys, new_tuple) ==
    IF template_keys = <<>>
    THEN new_tuple
    ELSE template_tuple(Tail(template_keys), SetItem(new_tuple, Head(template_keys), 0))

RECURSIVE create_R_loop(_, _, _)
\* for q_index, query in enumerate(Q): the INSERT lines append a tuple
create_R_loop(Qs, q_index, Rs) ==
    IF Qs = <<>>
    THEN Rs
    ELSE LET query     == Strip(Head(Qs))
             new_tuple == IF Len(Rs) > 0
                          THEN template_tuple(NonMeta(Keys(Rs[1])), <<>>)
                          ELSE <<>>
         IN  IF StartsWith(query, "INSERT")
             THEN create_R_loop(Tail(Qs), q_index + 1,
                                Append(Rs, SetItem(new_tuple, "_inserted_at", q_index)))
             ELSE create_R_loop(Tail(Qs), q_index + 1, Rs)

\* R = [row.copy() for row in D_0]; row['_inserted_at'] = -1; then the loop.
\* The rows of R are copies, so tagging them leaves the rows of D_0 as they are.
create_R(D0, Qs) ==
    create_R_loop(Qs, 0, [k \in 1..Len(D0) |-> SetItem(D0[k], "_inserted_at", -1)])


(***************************************************************************)
(* add_variables.py. A dict of variables is the sequence of its keys in    *)
(* insertion order and the function from key to variable; the parameter h  *)
(* is the number of objects allocated before the call.                     *)
(***************************************************************************)
Dict(keys, val) == [keys |-> keys, val |-> val]

\* the keys (q_index, t_index) in the order of the two nested loops
PairKeys(Rs, parsed_Q) ==
    Concat([q \in 1..Len(parsed_Q) |-> [t \in 1..Len(Rs) |-> <<q - 1, t - 1>>]])

add_binary_variables(Rs, parsed_Q, name, h) ==
    LET keys == PairKeys(Rs, parsed_Q)
    IN  Dict(keys,
             [k \in Range(keys) |->
                 LpVariable(name \o "_q" \o Str(k[1]) \o "_t" \o Str(k[2]),
                            NoBound, NoBound, "Binary", h + Pos(keys, k))])

add_continues_variables(Rs, parsed_Q, name, h) ==
    LET keys == PairKeys(Rs, parsed_Q)
    IN  Dict(keys,
             [k \in Range(keys) |->
                 LpVariable(name \o "_q" \o Str(k[1]) \o "_t" \o Str(k[2]),
                            NoBound, NoBound, "Continuous", h + Pos(keys, k))])

\* the keys (q_index, t_index, attr) in the order of the three nested loops
AttrKeys(Rs, parsed_Q) ==
    Concat([q \in 1..Len(parsed_Q) |->
               Concat([t \in 1..Len(Rs) |->
                          LET attrs == NonMeta(Keys(Rs[t]))
                          IN  [a \in 1..Len(attrs) |-> <<q - 1, t - 1, attrs[a]>>]])])

\* A faulty variant of add_out_in_variables, which builds no variable for a
\* tuple at the statements before its insertion.
add_out_in_variables_filtered(Rs, parsed_Q, h) ==
    LET inserted(k) == Get(Rs[k[2] + 1], "_inserted_at") <= k[1]
        keys  == SelectSeq(AttrKeys(Rs, parsed_Q), inserted)
        nm(k) == "_q" \o Str(k[1]) \o "_t" \o Str(k[2]) \o "_" \o k[3]
    IN  [out_vars |->
             Dict(keys, [k \in Range(keys) |->
                            LpVariable("out" \o nm(k), NoBound, NoBound, "Continuous",
                                       h + 2 * Pos(keys, k))]),
         in_vars |->
             Dict(keys, [k \in Range(keys) |->
                            LpVariable("in" \o nm(k), NoBound, NoBound, "Continuous",
                                       h + 2 * Pos(keys, k) - 1)])]

\* returns (out_vars, in_vars); the in variable of a key is built first
add_out_in_variables(Rs, parsed_Q, h) ==
    LET keys == AttrKeys(Rs, parsed_Q)
        nm(k) == "_q" \o Str(k[1]) \o "_t" \o Str(k[2]) \o "_" \o k[3]
    IN  [out_vars |->
             Dict(keys, [k \in Range(keys) |->
                            LpVariable("out" \o nm(k), NoBound, NoBound, "Continuous",
                                       h + 2 * Pos(keys, k))]),
         in_vars |->
             Dict(keys, [k \in Range(keys) |->
                            LpVariable("in" \o nm(k), NoBound, NoBound, "Continuous",
                                       h + 2 * Pos(keys, k) - 1)])]

\* returns (u_vars, v_vars)
add_u_v_variables(out_vars, h) ==
    [u_vars |->
         Dict(out_vars.keys,
              [k \in Range(out_vars.keys) |->
                  LpVariable("u_" \o out_vars.val[k].name, NoBound, NoBound, "Continuous",
                             h + 2 * Pos(out_vars.keys, k) - 1)]),
     v_vars |->
         Dict(out_vars.keys,
              [k \in Range(out_vars.keys) |->
                  LpVariable("v_" \o out_vars.val[k].name, NoBound, NoBound, "Continuous",
                             h + 2 * Pos(out_vars.keys, k))])]

\* the keys (q_index, attr) of the SET constants of statement q_index
SetConstKeys(q, q_index) ==
    IF q.type = "UPDATE" /\ "set" \in DOMAIN q
    THEN Concat([a \in 1..Len(q.set) |->
                    LET attr     == q.set[a][1]
                        set_expr == q.set[a][2]
                    IN  IF /\ "right_operand" \in DOMAIN set_expr
                           /\ IsFloat(set_expr.right_operand)
                        THEN << <<q_index, attr>> >>
                        ELSE <<>>])
    ELSE <<>>

\* the keys (q_index, attribute, cond_index) of the WHERE constants
WhereConstKeys(q, q_index) ==
    IF q.type \in {"UPDATE", "DELETE"} /\ q.where.some
    THEN Concat([c \in 1..Len(q.where.list) |->
                    LET cond == q.where.list[c]
                    IN  IF "value" \in DOMAIN cond /\ IsFloat(cond.value)
                        THEN << <<q_index, cond.attribute, c - 1>> >>
                        ELSE <<>>])
    ELSE <<>>

\* returns (const_vars_set, const_vars_where)
add_query_constant_variables(parsed_Q, h) ==
    LET sk(q)   == SetConstKeys(parsed_Q[q], q - 1)
        wk(q)   == WhereConstKeys(parsed_Q[q], q - 1)
        \* the keys of both dicts in the order the variables are built
        order   == Concat([q \in 1..Len(parsed_Q) |-> sk(q) \o wk(q)])
        setkeys == Concat([q \in 1..Len(parsed_Q) |-> sk(q)])
        whkeys  == Concat([q \in 1..Len(parsed_Q) |-> wk(q)])
    IN  [const_vars_set |->
             Dict(setkeys,
                  [k \in Range(setkeys) |->
                      LpVariable("const_set_q" \o Str(k[1]) \o "_" \o k[2],
                                 NoBound, NoBound, "Continuous", h + Pos(order, k))]),
         const_vars_where |->
             Dict(whkeys,
                  [k \in Range(whkeys) |->
                      LpVariable("const_where_q" \o Str(k[1]) \o "_" \o k[2]
                                     \o "_" \o Str(k[3]),
                                 NoBound, NoBound, "Continuous", h + Pos(order, k))])]

\* the number of parameters of def add_out_in_variables(R, parsed_Q)
add_out_in_variables_params == 2

\* MILP(R, D_n, parsed_Q, C, problem): builds x, e, s and m, then calls
\* add_out_in_variables(R, parsed_Q, "a") with three arguments, which raises
\* TypeError before any constraint is added to the problem. D_n and C are not read.
MILP(Rs, D_n, parsed_Q, C, prob) ==
    LET x_vars == add_binary_variables(Rs, parsed_Q, "x", 0)
        n      == Len(x_vars.keys)
        e_vars == add_binary_variables(Rs, parsed_Q, "e", n)
        s_vars == add_binary_variables(Rs, parsed_Q, "s", 2 * n)
        m_vars == add_continues_variables(Rs, parsed_Q, "m", 3 * n)
        oi     == add_out_in_variables(Rs, parsed_Q, 4 * n)
        uv     == add_u_v_variables(oi.out_vars, 4 * n + 2 * Len(oi.out_vars.keys))
        cv     == add_query_constant_variables(parsed_Q, 4 * n + 4 * Len(oi.out_vars.keys))
    IN  IF Len(<<Rs, parsed_Q, "a">>) # add_out_in_variables_params
        THEN [raised  |-> "TypeError",
              locals  |-> [x_vars |-> x_vars, e_vars |-> e_vars,
                           s_vars |-> s_vars, m_vars |-> m_vars],
              problem |-> prob]
        ELSE [raised  |-> "",
              locals  |-> [x_vars |-> x_vars, e_vars |-> e_vars,
                           s_vars |-> s_vars, m_vars |-> m_vars,
                           out_attributes |-> oi.out_vars, in_attributes |-> oi.in_vars,
                           u_vars |-> uv.u_vars, v_vars |-> uv.v_vars,
                           c_vars_where |-> cv.const_vars_set,
                           u_vars_set |-> cv.const_vars_where],
              problem |-> prob]

(***************************************************************************)
(* The inputs of the model.                                                *)
(***************************************************************************)
\* the sequences over S of length at most n
SeqsUpTo(S, n) == UNION {[1..k -> S] : k \in 0..n}

\* the attributes of the table of the example of main.py (id and A of Taxes)
TableAttrs == {"id", "A"}

\* rows of the initial database
RowPool ==
    { << <<"id", 1>>, <<"A", 9500>> >>,
      << <<"id", 2>>, <<"A", 90000>> >> }

\* log lines for create_R and the variable factory: the first two statements
\* of main.py, an INSERT in lower case, a line that only starts with INSERT,
\* and a DELETE behind a blank
MainLines ==
    { "UPDATE Taxes SET B=A+1000 WHERE A>=85700",
      "INSERT INTO Taxes VALUES (5, 85800, 21450, 64350)",
      "insert into Taxes values (6, 1, 2, 3)",
      "INSERT garbage",
      " DELETE FROM Taxes WHERE A<=20000" }

\* log lines for the parser and the constant variables
ParserLines ==
    { "UPDATE Taxes SET B=A+1000 WHERE A>=85700",
      "INSERT INTO Taxes VALUES (5, 85800)",
      "DELETE FROM Taxes WHERE A>=1 AND A<=9",
      "UPDATE Taxes SET D=A-B",
      "UPDATE Taxes SET B=1000",
      "UPDATE Taxes SET B=1000+A",
      "update Taxes set B=A*1.5 where A<x",
      "  SELECT 1  ",
      "DELETE FROM Taxes",
      "UPDATE Taxes SET" }

\* the variables handed to the gadgets: four objects, allocated before the call
BinaryInputs ==
    { LpVariable("b1", NoBound, NoBound, "Binary", 1),
      LpVariable("b2", NoBound, NoBound, "Binary", 2) }

ContinuousInputs ==
    { LpVariable("u", NoBound, NoBound, "Continuous", 3),
      LpVariable("v", NoBound, NoBound, "Continuous", 4) }

\* the number of objects allocated before a gadget is called
InputObjects == Cardinality(BinaryInputs \cup ContinuousInputs)

\* a complaint on the tuple of identity id, whose correct tuple has the value
\* a for attribute A
Complaint(id, a) ==
    [wrong   |-> << <<"id", id>>, <<"A", 0>> >>,
     correct |-> << <<"id", id>>, <<"A", a>> >>]

NoCall == [fn |-> "none", args |-> <<>>]

(***************************************************************************)
(* The run of main(): create_R, parse_query_log, then MILP; and the calls  *)
(* of the variable factory on the same R and parsed log.                   *)
(***************************************************************************)
Init ==
    /\ D_0 \in SeqsUpTo(RowPool, MaxRows)
    /\ Q \in SeqsUpTo(MainLines, MaxLog)
    /\ R = <<>>
    /\ parsed_log = <<>>
    /\ problem = <<>>
    /\ call = NoCall
    /\ ret = Return(<<>>)

CreateR ==
    /\ call.fn = "none"
    /\ R' = create_R(D_0, Q)
    /\ call' = [fn |-> "create_R", args |-> <<>>]
    /\ ret' = Return(<<>>)
    /\ UNCHANGED <<D_0, Q, parsed_log, problem>>

ParseQueryLog ==
    /\ call.fn = "create_R"
    /\ parsed_log' = parse_query_log(Q)
    /\ call' = [fn |-> "parse_query_log", args |-> <<>>]
    /\ ret' = Return(<<>>)
    /\ UNCHANGED <<D_0, Q, R, problem>>

\* R and the parsed log exist and main() has not ended
Prepared == call.fn \notin {"none", "create_R", "MILP"}

AddBinaryVariables ==
    /\ Prepared
    /\ \E name \in {"x", "e", "s"} :
          /\ call' = [fn |-> "add_binary_variables", args |-> <<name>>]
          /\ ret' = Return(add_binary_variables(R, parsed_log, name, 0))
    /\ UNCHANGED <<D_0, Q, R, parsed_log, problem>>

AddContinuesVariables ==
    /\ Prepared
    /\ call' = [fn |-> "add_continues_variables", args |-> <<"m">>]
    /\ ret' = Return(add_continues_variables(R, parsed_log, "m", 0))
    /\ UNCHANGED <<D_0, Q, R, parsed_log, problem>>

AddOutInVariables ==
    /\ Prepared
    /\ call' = [fn |-> "add_out_in_variables", args |-> <<>>]
    /\ ret' = Return(add_out_in_variables(R, parsed_log, 0))
    /\ UNCHANGED <<D_0, Q, R, parsed_log, problem>>

AddUVVariables ==
    /\ Prepared
    /\ call' = [fn |-> "add_u_v_variables", args |-> <<>>]
    /\ LET oi == add_out_in_variables(R, parsed_log, 0)
       IN  ret' = Return(add_u_v_variables(oi.out_vars, 2 * Len(oi.out_vars.keys)))
    /\ UNCHANGED <<D_0, Q, R, parsed_log, problem>>

AddQueryConstantVariables ==
    /\ call.fn = "parse_query_log"
    /\ call' = [fn |-> "add_query_constant_variables", args |-> <<>>]
    /\ ret' = Return(add_query_constant_variables(parsed_log, 0))
    /\ UNCHANGED <<D_0, Q, R, parsed_log, problem>>

CallMILP ==
    /\ Prepared
    /\ LET r == MILP(R, <<>>, parsed_log, <<>>, problem)
       IN  /\ ret' = [raised |-> r.raised, value |-> r.locals]
           /\ problem' = r.problem
    /\ call' = [fn |-> "MILP", args |-> <<>>]
    /\ UNCHANGED <<D_0, Q, R, parsed_log>>

Next ==
    \/ CreateR
    \/ ParseQueryLog
    \/ AddBinaryVariables
    \/ AddContinuesVariables
    \/ AddOutInVariables
    \/ AddUVVariables
    \/ AddQueryConstantVariables
    \/ CallMILP

Spec == Init /\ [][Next]_vars

(***************************************************************************)
(* The parser and the constant variables on logs over ParserLines.         *)
(***************************************************************************)
ParserInit ==
    /\ D_0 = <<>>
    /\ Q \in SeqsUpTo(ParserLines, MaxLog)
    /\ R = <<>>
    /\ parsed_log = <<>>
    /\ problem = <<>>
    /\ call = NoCall
    /\ ret = Return(<<>>)

ParserNext ==
    \/ CreateR
    \/ ParseQueryLog
    \/ AddQueryConstantVariables

ParserSpec == ParserInit /\ [][ParserNext]_vars

(***************************************************************************)
(* The gadgets of add_constraints.py: one call, on inputs drawn from the   *)
(* pools above; a call that takes a problem gets a new, empty LpProblem.   *)
(***************************************************************************)
GadgetInit ==
    /\ D_0 = <<>>
    /\ Q = <<>>
    /\ R = <<>>
    /\ parsed_log = <<>>
    /\ problem = <<>>
    /\ call = NoCall
    /\ ret = Return(<<>>)

CallBinaryMult ==
    /\ call.fn = "none"
    /\ \E b \in BinaryInputs, u \in ContinuousInputs \cup BinaryInputs, M \in 1..MaxM :
          /\ call' = [fn |-> "binary_mult", args |-> <<b, u, M>>]
          /\ ret' = binary_mult(b, u, M, InputObjects)
    /\ problem' = <<>>
    /\ UNCHANGED <<D_0, Q, R, parsed_log>>

CallIsLessEqual ==
    /\ call.fn = "none"
    /\ \E v1 \in ContinuousInputs, v2 \in ContinuousInputs \cup {Number(1)}, M \in 1..MaxM :
          /\ call' = [fn |-> "is_less_equal", args |-> <<v1, v2, M>>]
          /\ ret' = is_less_equal(v1, v2, M, InputObjects)
    /\ problem' = <<>>
    /\ UNCHANGED <<D_0, Q, R, parsed_log>>

CallAndBinary ==
    /\ call.fn = "none"
    /\ \E b1 \in BinaryInputs, b2 \in BinaryInputs :
          /\ call' = [fn |-> "and_binary", args |-> <<b1, b2>>]
          /\ ret' = and_binary(b1, b2, InputObjects)
    /\ problem' = <<>>
    /\ UNCHANGED <<D_0, Q, R, parsed_log>>

CallIsEqual ==
    /\ call.fn = "none"
    /\ \E v1 \in ContinuousInputs, v2 \in ContinuousInputs \cup {Number(1)}, M \in 1..MaxM :
          /\ call' = [fn |-> "is_equal", args |-> <<v1, v2, M>>]
          /\ ret' = is_equal(v1, v2, M, InputObjects)
    /\ problem' = <<>>
    /\ UNCHANGED <<D_0, Q, R, parsed_log>>

CallAddProducts ==
    /\ call.fn = "none"
    /\ \E u \in ContinuousInputs, v \in ContinuousInputs :
          /\ call' = [fn |-> "add_products", args |-> <<u, v>>]
          /\ LET r == add_products(u, v, <<>>, InputObjects)
             IN  /\ ret' = [raised |-> r.raised, value |-> r.value]
                 /\ problem' = r.problem
    /\ UNCHANGED <<D_0, Q, R, parsed_log>>

\* the working table of nt rows and the parsed log of nq statements
TableOf(nt) == [k \in 1..nt |-> << <<"id", k>>, <<"A", 0>>, <<"_inserted_at", -1>> >>]

LogOf(nq) == [k \in 1..nq |-> [type |-> "DELETE", table |-> "Taxes", where |-> None]]

CallAddEConstraints ==
    /\ call.fn = "none"
    /\ \E nq \in 0..MaxPairs, nt \in 0..MaxPairs, g \in 0..1, M \in 1..MaxM,
          isvar \in BOOLEAN, lp_truth \in BOOLEAN,
          C \in SeqsUpTo({Complaint(id, a) : id \in 1..2, a \in 0..1}, MaxPairs) :
          LET Rs     == TableOf(nt)
              pq     == LogOf(nq)
              e_vars == add_binary_variables(Rs, pq, "e", 0)
              t_vars == add_continues_variables(Rs, pq, "t", nq * nt)
              ghost  == IF isvar
                        THEN LpVariable("ghost", Bound(g), Bound(g), "Continuous",
                                        2 * nq * nt + 1)
                        ELSE Number(g)
              r      == add_e_constraints(<<>>, Rs, C, e_vars, t_vars, ghost, M,
                                          lp_truth, 2 * nq * nt + 1)
          IN  /\ ~isvar => lp_truth
              /\ call' = [fn |-> "add_e_constraints",
                          args |-> [R |-> Rs, C |-> C, e_vars |-> e_vars, t_vars |-> t_vars,
                                    ghost |-> ghost, M |-> M]]
              /\ ret' = [raised |-> r.raised, value |-> <<>>]
              /\ problem' = r.problem
    /\ UNCHANGED <<D_0, Q, R, parsed_log>>

GadgetNext ==
    \/ CallBinaryMult
    \/ CallIsLessEqual
    \/ CallAndBinary
    \/ CallIsEqual
    \/ CallAddProducts
    \/ CallAddEConstraints

GadgetSpec == GadgetInit /\ [][GadgetNext]_vars

(***************************************************************************)
(* Properties of the gadgets, under GadgetSpec.                            *)
(***************************************************************************)
\* the call of fn has returned a value
Returned(fn) == call.fn = fn /\ ret.raised = ""

\* the assignment asg gives the variables of inp the values inp gives them
Extends(asg, inp) == \A o \in DOMAIN inp : asg[o] = inp[o]

\* the binary variable a lessOrEqual leg introduces in its constraint c
LegVar(c) == CHOOSE x \in ConstraintVars(c) : x.cat = "Binary"

\* the feasible assignments of a returned gadget over its inputs vs, the
\* variable it returns and the variables of its constraints
GadgetFeasible(vs) ==
    Feasible(ret.value.constraints,
             vs \cup {ret.value.var} \cup VarsOf(ret.value.constraints))

\* C1 (as the claim states it): for every b in {0,1} and every u in [0, M],
\* the constraints of binary_mult(b, u, M) are satisfiable and every
\* satisfying assignment has a = b * u.
C1_BinaryMultExactProduct ==
    Returned("binary_mult") =>
        LET b == call.args[1]
            u == call.args[2]
            M == call.args[3]
            a == ret.value.var
            F == GadgetFeasible({b, u})
        IN  \A inp \in Assignments({b, u}) :
                (0 <= inp[u.obj] /\ inp[u.obj] <= M) =>
                    /\ \E asg \in F : Extends(asg, inp)
                    /\ \A asg \in F :
                          Extends(asg, inp) => asg[a.obj] = inp[b.obj] * inp[u.obj]

\* C2 (as the claim states it): is_equal(v, v, M) is satisfiable for every
\* value of v and every satisfying assignment has b = 1 (b = 0 is not feasible).
C2_EqualSelfForcesOne ==
    (Returned("is_equal") /\ call.args[1] = call.args[2]) =>
        LET v == call.args[1]
            b == ret.value.var
            F == GadgetFeasible({v})
        IN  \A inp \in Assignments({v}) :
                /\ \E asg \in F : Extends(asg, inp)
                /\ \A asg \in F : Extends(asg, inp) => asg[b.obj] = 1

\* is_equal has returned for one variable given as both arguments
C2_Witness ==
    /\ Returned("is_equal")
    /\ call.args[1] = call.args[2]
    /\ Len(ret.value.constraints) = 5

\* C3: in every satisfying assignment of is_equal(v1, v2, M), b = 1 implies
\* v1 = v2, and the binary of a lessOrEqual leg equal to 1 implies the
\* inequality of the leg; a binary equal to 0 implies nothing, so b = 0 is
\* feasible for all v1, v2 with |v1 - v2| <= M.
C3_EqualOneDirectional ==
    /\ Returned("is_less_equal") =>
           LET v1 == call.args[1]
               v2 == call.args[2]
               M  == call.args[3]
               b  == ret.value.var
               F  == GadgetFeasible({v1, v2})
           IN  /\ \A asg \in F : asg[b.obj] = 1 => asg[v1.obj] <= asg[v2.obj]
               /\ \A inp \in Assignments({v1, v2}) :
                      (inp[v1.obj] - inp[v2.obj] <= M) =>
                          \E asg \in F : Extends(asg, inp) /\ asg[b.obj] = 0
    /\ Returned("is_equal") =>
           LET v1  == call.args[1]
               v2  == call.args[2]
               M   == call.args[3]
               b   == ret.value.var
               le1 == LegVar(ret.value.constraints[1])
               le2 == LegVar(ret.value.constraints[2])
               F   == GadgetFeasible({v1, v2})
           IN  /\ \A asg \in F :
                      /\ asg[b.obj] = 1 => asg[v1.obj] = asg[v2.obj]
                      /\ asg[le1.obj] = 1 => asg[v1.obj] <= asg[v2.obj]
                      /\ asg[le2.obj] = 1 => asg[v2.obj] <= asg[v1.obj]
               /\ \A inp \in Assignments({v1, v2}) :
                      (/\ inp[v1.obj] - inp[v2.obj] <= M
                       /\ inp[v2.obj] - inp[v1.obj] <= M) =>
                          \E asg \in F : Extends(asg, inp) /\ asg[b.obj] = 0

\* is_equal has returned for two variables, and b = 1 is feasible
C3_Witness ==
    /\ Returned("is_equal")
    /\ call.args[1] # call.args[2]
    /\ \E asg \in GadgetFeasible({call.args[1], call.args[2]}) :
          asg[ret.value.var.obj] = 1

\* C4: for b1, b2 in {0,1}, every satisfying assignment of and_binary(b1, b2)
\* has b = 1 when b1 = b2 = 1 and b = 0 otherwise, and one exists.
C4_AndBinaryExact ==
    Returned("and_binary") =>
        LET b1 == call.args[1]
            b2 == call.args[2]
            b  == ret.value.var
            F  == GadgetFeasible({b1, b2})
        IN  \A inp \in Assignments({b1, b2}) :
                {asg[b.obj] : asg \in {f \in F : Extends(f, inp)}}
                    = {IF inp[b1.obj] = 1 /\ inp[b2.obj] = 1 THEN 1 ELSE 0}

\* and_binary has returned for two binary variables
C4_Witness ==
    /\ Returned("and_binary")
    /\ call.args[1] # call.args[2]
    /\ Len(ret.value.constraints) = 3

\* the variables of vs that their bounds do not fix
Free(vs) == {v \in vs : Cardinality(Domain(v)) > 1}

RECURSIVE Linked(_, _)
\* the free variables that constraints of cs link to the variables of S
Linked(cs, S) ==
    LET T == S \cup UNION {Free(ConstraintVars(cs[k])) :
                              k \in {n \in 1..Len(cs) : ConstraintVars(cs[n]) \cap S # {}}}
    IN  IF T = S THEN S ELSE Linked(cs, T)

\* the constraints of cs on variables of S
About(cs, S) ==
    LET on(c) == ConstraintVars(c) \cap S # {}
    IN  SelectSeq(cs, on)

\* the feasible assignments of the constraints that the problem holds on the
\* variables vs and on the variables linked to them
ProblemFeasible(vs) ==
    LET S  == Linked(problem, vs)
        cs == About(problem, S)
    IN  Feasible(cs, S \cup VarsOf(cs))

\* the value of ghost: the number, or the value the bounds of the variable fix
GhostValue(ghost) == IF ghost.kind = "number" THEN ghost.val ELSE ghost.lowBound.val

\* C5 (as the claim states it): for every pair (i, j) of e_vars, in every
\* assignment that satisfies the constraints add_e_constraints has added,
\* e[i,j] = 1 exactly when it is not the case that t[i,j] = ghost and the
\* attribute of the correct tuple of complaint j = ghost.
C5_ErrorIndicatorIff ==
    call.fn = "add_e_constraints" =>
        LET a == call.args
            g == GhostValue(a.ghost)
        IN  \A key \in Range(a.e_vars.keys) :
                (key \in DOMAIN a.t_vars.val /\ key[2] + 1 <= Len(a.C)) =>
                    LET e       == a.e_vars.val[key]
                        t       == a.t_vars.val[key]
                        correct == Get(a.C[key[2] + 1].correct, "A")
                    IN  \A asg \in ProblemFeasible({e, t}) :
                            (asg[e.obj] = 1) <=> ~(asg[t.obj] = g /\ correct = g)

(***************************************************************************)
(* Properties of the run of main() and of the variable factory, under Spec.*)
(***************************************************************************)
RECURSIVE InsertIndices(_, _)
\* the log indices (from 0) of the entries of type INSERT from entry k on
InsertIndices(parsed, k) ==
    IF k > Len(parsed)
    THEN <<>>
    ELSE (IF parsed[k].type = "INSERT" THEN <<k - 1>> ELSE <<>>)
             \o InsertIndices(parsed, k + 1)

\* C6 (as the claim states it): R is a copy of each row of D_0 in order, tagged
\* _inserted_at = -1, followed by one placeholder tuple for each statement that
\* parse_query_log classifies as INSERT, in log order, tagged with its index.
C6_WorkingTableMatchesParsedInserts ==
    call.fn \notin {"none", "create_R"} =>
        LET ins == InsertIndices(parsed_log, 1)
        IN  /\ Len(R) = Len(D_0) + Len(ins)
            /\ \A k \in 1..Len(D_0) :
                  R[k] = D_0[k] \o << <<"_inserted_at", -1>> >>
            /\ \A n \in 1..Len(ins) :
                  Get(R[Len(D_0) + n], "_inserted_at") = ins[n]

\* the dict d holds one variable for each key of S and for no other key, and
\* the variables of two keys are two objects with two names
OneVariableEach(d, S) ==
    /\ Range(d.keys) = S
    /\ Len(d.keys) = Cardinality(S)
    /\ DOMAIN d.val = S
    /\ \A k1, k2 \in S :
          k1 # k2 => /\ d.val[k1].obj # d.val[k2].obj
                     /\ d.val[k1].name # d.val[k2].name

\* every (statement index, tuple index)
AllPairs == (0..(Len(parsed_log) - 1)) \X (0..(Len(R) - 1))

\* every (q, t, A) with A an attribute that tuple t carries, metadata apart
OwnAttrKeys ==
    {x \in {<<k[1], k[2], a>> : k \in AllPairs, a \in TableAttrs \cup {"_inserted_at"}} :
        /\ HasKey(R[x[2] + 1], x[3])
        /\ Ch(x[3], 1) # "_"}

\* every (q, t, A) with A an attribute of the table
TableAttrKeys == {<<k[1], k[2], a>> : k \in AllPairs, a \in TableAttrs}

\* the factory has built one variable for each pair, and one in and one out
\* variable for each attribute that each tuple carries at each statement
FullCrossProduct ==
    /\ call.fn \in {"add_binary_variables", "add_continues_variables"} =>
           OneVariableEach(ret.value, AllPairs)
    /\ call.fn = "add_out_in_variables" =>
           /\ OneVariableEach(ret.value.in_vars, OwnAttrKeys)
           /\ OneVariableEach(ret.value.out_vars, OwnAttrKeys)
           /\ \A k1, k2 \in OwnAttrKeys :
                  ret.value.in_vars.val[k1].obj # ret.value.out_vars.val[k2].obj

\* C7 (as the claim states it): the factory covers the full cross product, so
\* every tuple of R, those appended for INSERT included, has in and out
\* variables for every attribute of the table at every statement.
C7_EveryTupleEveryTableAttribute ==
    /\ FullCrossProduct
    /\ call.fn = "add_out_in_variables" =>
           /\ TableAttrKeys \subseteq Range(ret.value.in_vars.keys)
           /\ TableAttrKeys \subseteq Range(ret.value.out_vars.keys)

\* C7 (amended): the factory covers the full cross product; a tuple appended for
\* INSERT carries the attributes of the first row of R, so every tuple has in
\* and out variables for every attribute of the table when D_0 is not empty,
\* and a tuple appended to an empty table has none.
C7_FullCrossProductOfCarriedAttributes ==
    /\ FullCrossProduct
    /\ call.fn = "add_out_in_variables" =>
           /\ D_0 # <<>> =>
                  /\ TableAttrKeys \subseteq Range(ret.value.in_vars.keys)
                  /\ TableAttrKeys \subseteq Range(ret.value.out_vars.keys)
           /\ D_0 = <<>> =>
                  /\ ret.value.in_vars.keys = <<>>
                  /\ ret.value.out_vars.keys = <<>>

\* the factory has built in and out variables for a table of a row of D_0 and
\* a tuple appended for an INSERT that is not the first statement of the log
C7_Witness ==
    /\ call.fn = "add_out_in_variables"
    /\ D_0 # <<>>
    /\ \E t \in 1..Len(R) : Get(R[t], "_inserted_at") > 0
    /\ Len(ret.value.out_vars.keys) = Len(parsed_log) * Len(R) * Cardinality(TableAttrs)

\* C10 (as the claim states it): in every assignment feasible for the problem
\* after MILP, out[i,j,A] = in[i+1,j,A] for every tuple j, attribute A and
\* consecutive statements i and i+1.
C10_ChainContinuity ==
    call.fn = "MILP" =>
        LET oi == add_out_in_variables(R, parsed_log, 0)
        IN  \A k \in Range(oi.out_vars.keys) :
                <<k[1] + 1, k[2], k[3]>> \in Range(oi.in_vars.keys) =>
                    LET out == oi.out_vars.val[k]
                        in  == oi.in_vars.val[<<k[1] + 1, k[2], k[3]>>]
                    IN  \A asg \in ProblemFeasible({out, in}) :
                            asg[out.obj] = asg[in.obj]

(***************************************************************************)
(* Properties of the parser and of the constant variables, under           *)
(* ParserSpec.                                                             *)
(***************************************************************************)
RECURSIVE Literals(_, _)
\* the number of numeric literals of s from position i on: the words of
\* letters, digits, _ and . that start with a digit
Literals(s, i) ==
    IF i > Len(s)
    THEN 0
    ELSE (IF Ch(s, i) \in Digits /\ Ch(s, i - 1) \notin WordDot THEN 1 ELSE 0)
             + Literals(s, i + 1)

\* the number of constant variables built for the statement of index q_index
ConstCount(q_index) ==
    Cardinality({k \in Range(ret.value.const_vars_set.keys) : k[1] = q_index})
        + Cardinality({k \in Range(ret.value.const_vars_where.keys) : k[1] = q_index})

\* C8 (as the claim states it): there is one constant variable for every
\* numeric literal of every statement of the parsed log.
C8_OneConstantPerLiteral ==
    call.fn = "add_query_constant_variables" =>
        \A i \in 1..Len(Q) :
            parsed_log[i].type # "UNKNOWN" => ConstCount(i - 1) = Literals(Q[i], 1)

\* what each line of ParserLines is, by the patterns of the parser
LineType(line) ==
    CASE line \in {"UPDATE Taxes SET B=A+1000 WHERE A>=85700",
                   "UPDATE Taxes SET D=A-B",
                   "UPDATE Taxes SET B=1000",
                   "UPDATE Taxes SET B=1000+A",
                   "update Taxes set B=A*1.5 where A<x"} -> "UPDATE"
      [] line \in {"INSERT INTO Taxes VALUES (5, 85800)"} -> "INSERT"
      [] line \in {"DELETE FROM Taxes WHERE A>=1 AND A<=9",
                   "DELETE FROM Taxes"} -> "DELETE"
      [] OTHER -> "UNKNOWN"

\* C9: parse_query_log returns a list of the length of Q whose entry i describes
\* line i; a line that matches no pattern gives an entry of type UNKNOWN with
\* the text of the line (its surrounding blanks removed), the statements after
\* it keep their index, and add_query_constant_variables returns without an
\* exception and with no variable for an UNKNOWN entry.
C9_UnknownLinesKeepTheirPlace ==
    call.fn \in {"parse_query_log", "add_query_constant_variables"} =>
        /\ ret.raised = ""
        /\ Len(parsed_log) = Len(Q)
        /\ \A i \in 1..Len(Q) :
              /\ parsed_log[i].type = LineType(Q[i])
              /\ parsed_log[i].type = "UNKNOWN" =>
                     /\ parsed_log[i].raw = Strip(Q[i])
                     /\ call.fn = "add_query_constant_variables" => ConstCount(i - 1) = 0
              /\ parsed_log[i].type # "UNKNOWN" => parsed_log[i].table = "Taxes"

\* the constant variables are built for a log whose first line matches no
\* pattern and whose second line is a statement with a constant variable
C9_Witness ==
    /\ call.fn = "add_query_constant_variables"
    /\ Len(Q) = 2
    /\ parsed_log[1].type = "UNKNOWN"
    /\ parsed_log[1].raw # Q[1]
    /\ parsed_log[2].type = "UPDATE"
    /\ ConstCount(1) > 0

\* C11 (as the claim states it, for a ghost that is_equal accepts): when the
\* complaints do not line up with R, add_e_constraints returns without an
\* exception, and a constraint on e[i,j] or t[i,j] is added only for a tuple j
\* whose identity key is that of a complaint.
C11_ComplaintsMatchedByIdentity ==
    (call.fn = "add_e_constraints" /\ call.args.ghost.kind = "LpVariable") =>
        LET a == call.args
            matched(j) ==
                \E n \in 1..Len(a.C) :
                    Get(a.C[n].correct, "id") = Get(a.R[j + 1], "id")
            constrained(key) ==
                \E k \in 1..Len(problem) :
                    ConstraintVars(problem[k])
                        \cap {a.e_vars.val[key], a.t_vars.val[key]} # {}
        IN  /\ ret.raised = ""
            /\ \A key \in Range(a.e_vars.keys) :
                  constrained(key) => matched(key[2])

====
